---- MODULE Spec2Model ----
(***************************************************************************)
(* A model of genwav.py: the WaveWriter (RIFF/WAVE header and payload),    *)
(* the WaveGenerator combinators and oscillators, the attack/decay         *)
(* envelope, the gen_*_tone runs and main.                                 *)
(*                                                                         *)
(* Floating-point samples are modelled as exact rationals [n, d]; bytes    *)
(* are the integers 0..255; a file is its byte sequence and a position.    *)
(***************************************************************************)
EXTENDS Integers, Sequences, FiniteSets, TLC

VARIABLES
    fp,              \* WaveWriter.fp: the sink, [data |-> bytes, pos |-> offset]
    nchannels,       \* WaveWriter.nchannels
    sampwidth,       \* WaveWriter.sampwidth
    framerate,       \* WaveWriter.framerate
    nframes,         \* WaveWriter.nframes: <<>> is None, <<N>> a declared count
    nframeswritten,  \* WaveWriter._nframeswritten
    wstate,          \* position of the writer's user: "open", "closed"
    hist,            \* history of the calls made on the writer
    comb,            \* an add/mult generator object over finite input iterators
    osc,             \* a square oscillator pulled on its own
    tone,            \* the generator a gen_*_tone run composes, pulled step by step
    run              \* a call of main or of a gen_*_tone function

wvars == <<fp, nchannels, sampwidth, framerate, nframes, nframeswritten, wstate, hist>>
vars == <<wvars, comb, osc, tone, run>>

(***************************************************************************)
(* Bounds of the model.                                                    *)
(***************************************************************************)
MaxCalls == 2      \* write calls per writer
MaxFrames == 2     \* samples handed to one write call
MaxDeclared == 2   \* largest declared frame count
MaxIters == 3      \* input iterators handed to add / mult
MaxLen == 2        \* length of a finite input iterator
MaxRate == 8       \* largest frame rate of the oscillator pulled on its own
MaxFreq == 3       \* largest frequency of the oscillator pulled on its own
MaxPulls == 12     \* next() calls on the oscillator pulled on its own
MaxTones == 2      \* length of a tone list
MaxEnv == 2        \* largest frame count of an envelope phase
MaxOpts == 1       \* option words on the command line

\* the element of a one-element set.  ValueOf({e : x \in {v}}) is e with x
\* naming the value of v, which is then computed once however often e uses it
ValueOf(S) == CHOOSE v \in S : TRUE

\* the sequences over S of length at most n
SeqsUpTo(S, n) == UNION {[1..k -> S] : k \in 0..n}

(***************************************************************************)
(* Rationals.                                                              *)
(***************************************************************************)
Abs(x) == IF x < 0 THEN -x ELSE x

RECURSIVE GCD(_, _)
GCD(a, b) ==
    IF b = 0 THEN a ELSE ValueOf({GCD(y, x % y) : <<x, y>> \in {<<a, b>>}})

\* the rational n/d (d # 0) in lowest terms with a positive denominator
Q(n, d) ==
    ValueOf({[n |-> (IF y < 0 THEN -1 ELSE 1) * (x \div g),
              d |-> (IF y < 0 THEN -1 ELSE 1) * (y \div g)]
             : <<x, y, g>> \in {<<n, d, GCD(Abs(n), Abs(d))>>}})

QInt(k) == [n |-> k, d |-> 1]
QAdd(x, y) == ValueOf({Q(a.n * b.d + b.n * a.d, a.d * b.d) : <<a, b>> \in {<<x, y>>}})
QMul(x, y) == ValueOf({Q(a.n * b.n, a.d * b.d) : <<a, b>> \in {<<x, y>>}})

\* Python's int() of a number a/b, b > 0: truncation toward zero
Trunc(a, b) == IF a >= 0 THEN a \div b ELSE -((-a) \div b)

(***************************************************************************)
(* struct.pack and the sink.                                               *)
(***************************************************************************)
\* '<l' / '<h': little-endian two's complement of v on n bytes
pack_le(v, n) == [i \in 1..n |-> (v \div (256 ^ (i - 1))) % 256]

unpack_le(bytes) ==
    LET RECURSIVE U(_)
        U(i) == IF i > Len(bytes) THEN 0 ELSE bytes[i] * (256 ^ (i - 1)) + U(i + 1)
    IN  U(1)

TagRIFF == <<82, 73, 70, 70>>
TagWAVE == <<87, 65, 86, 69>>
Tagfmt  == <<102, 109, 116, 32>>
Tagdata == <<100, 97, 116, 97>>

\* file.write(bytes) at the current position: overwrites, then extends
fp_write(f, bytes) ==
    LET end == f.pos + Len(bytes)
        len == IF end > Len(f.data) THEN end ELSE Len(f.data)
    IN  [data |-> [i \in 1..len |->
                      IF i > f.pos /\ i <= end THEN bytes[i - f.pos] ELSE f.data[i]],
         pos  |-> end]

fp_seek(f, offset) == [f EXCEPT !.pos = offset]

EmptyFile == [data |-> <<>>, pos |-> 0]

(***************************************************************************)
(* WaveWriter.                                                             *)
(***************************************************************************)
header_bytes(nch, sw, fr, nfr) ==
    LET datalen == nch * sw * nfr
    IN  pack_le(36 + datalen, 4) \o TagWAVE \o Tagfmt \o pack_le(16, 4)
        \o pack_le(1, 2) \o pack_le(nch, 2) \o pack_le(fr, 4)
        \o pack_le(nch * sw * fr, 4) \o pack_le(nch * sw, 2)
        \o pack_le(sw * 8, 2) \o Tagdata \o pack_le(datalen, 4)

write_header(f, nch, sw, fr, nfr) ==
    fp_write(fp_write(f, TagRIFF), header_bytes(nch, sw, fr, nfr))

\* __init__: the sink after construction
WaveWriter_init(f, nch, sw, fr, nfr) ==
    IF nfr = <<>> THEN write_header(f, 0, 0, 0, 0)
    ELSE write_header(f, nch, sw, fr, nfr[1])

ratio(sw) == IF sw = 1 THEN 255 ELSE 32767
arraytype(sw) == IF sw = 1 THEN "b" ELSE "h"
itemsize(t) == IF t = "b" THEN 1 ELSE 2
typemin(t) == IF t = "b" THEN -128 ELSE -32768
typemax(t) == IF t = "b" THEN 127 ELSE 32767

close_noseek(f, nch, sw, fr, nfr, nfw) ==
    IF nfr = <<>> THEN write_header(f, nch, sw, fr, nfw)
    ELSE f

close(f, nch, sw, fr, nfr, nfw) ==
    IF nfr = <<>> THEN write_header(fp_seek(f, 0), nch, sw, fr, nfw)
    ELSE f

eof(nfr, nfw) == nfr # <<>> /\ nfr[1] <= nfw

tell(nfw) == nfw

writeraw(f, nfw, sw, bytes) ==
    [fp |-> fp_write(f, bytes),
     nframeswritten |-> nfw + (Len(bytes) \div sw),
     exc |-> ""]

\* array.array(typecode, a).tostring()
tostring(t, a) ==
    [j \in 1..(Len(a) * itemsize(t)) |->
        pack_le(a[((j - 1) \div itemsize(t)) + 1], itemsize(t))[((j - 1) % itemsize(t)) + 1]]

\* write(frames): frames is an iterable that yields frames.vals and then
\* either ends (frames.exc = "") or raises frames.exc
\* [int(x*self.ratio) for x in frames]
scaled(vals, sw) == [i \in 1..Len(vals) |-> Trunc(vals[i].n * ratio(sw), vals[i].d)]

write_streaming(f, nfw, nch, sw, frames) ==
    IF nch # 1 THEN [fp |-> f, nframeswritten |-> nfw, exc |-> "AssertionError"]
    ELSE [writeraw(f, nfw, sw, tostring(arraytype(sw), scaled(frames.vals, sw)))
            EXCEPT !.exc = frames.exc]

write(f, nfw, nch, sw, frames) ==
    ValueOf({
        IF nch # 1 THEN [fp |-> f, nframeswritten |-> nfw, exc |-> "AssertionError"]
        ELSE IF frames.exc # ""
             THEN [fp |-> f, nframeswritten |-> nfw, exc |-> frames.exc]
        ELSE IF \E i \in 1..Len(a) : a[i] < typemin(t) \/ a[i] > typemax(t)
             THEN [fp |-> f, nframeswritten |-> nfw, exc |-> "OverflowError"]
        ELSE writeraw(f, nfw, sw, tostring(t, a))
        : <<a, t>> \in {<<scaled(frames.vals, sw), arraytype(sw)>>}})

(***************************************************************************)
(* WaveGenerator.add and WaveGenerator.mult: generator objects.  A finite  *)
(* input iterator is the sequence of the values it has still to yield.     *)
(* pc is the generator's position: "start" (not yet run), "yield"          *)
(* (suspended at its yield statement), "done" (returned), "error" (left by *)
(* an exception).                                                          *)
(***************************************************************************)
NoComb == [op |-> "none", inputs |-> <<>>, iters |-> <<>>, r |-> <<>>,
           out |-> <<>>, pc |-> "done", exc |-> ""]

\* the for loop over iters: pulls every iterator once; an exhausted one
\* (StopIteration) is appended to r and contributes nothing to x
RECURSIVE pull_each(_, _, _)
pull_each(op, i, acc) ==
    ValueOf({
        IF i > Len(a.iters) THEN a
        ELSE IF a.iters[i] = <<>>
             THEN pull_each(op, i + 1, [a EXCEPT !.r = Append(@, i)])
             ELSE pull_each(op, i + 1,
                            [a EXCEPT !.x = IF op = "add" THEN @ + Head(a.iters[i])
                                            ELSE @ * Head(a.iters[i]),
                                      !.iters[i] = Tail(@)])
        : a \in {acc}})

\* the loop from its head to the next yield
loop_to_yield(g, x0) ==
    IF g.iters = <<>> THEN [g EXCEPT !.pc = "done"]
    ELSE ValueOf({[g EXCEPT !.iters = acc.iters, !.r = acc.r,
                            !.out = Append(@, acc.x), !.pc = "yield"]
                  : acc \in {pull_each(g.op, 1, [x |-> x0, r |-> <<>>,
                                                  iters |-> g.iters])}})

\* resuming after the yield: iters is the tuple of the arguments, and a tuple
\* has no remove
resume_then_loop(g, x0) ==
    IF g.r # <<>> THEN [g EXCEPT !.pc = "error", !.exc = "AttributeError"]
    ELSE loop_to_yield(g, x0)

\* one next() on the generator add(*iters)
add(g) ==
    IF g.pc = "start" THEN loop_to_yield(g, 0)
    ELSE IF g.pc = "yield" THEN resume_then_loop(g, 0)
    ELSE g

\* one next() on the generator mult(*iters)
mult(g) ==
    IF g.pc = "start" THEN loop_to_yield(g, 1)
    ELSE IF g.pc = "yield" THEN resume_then_loop(g, 1)
    ELSE g

(***************************************************************************)
(* The tone table and the oscillators.  A tone specifier is a note name    *)
(* (a string) or a number: [name |-> s, num |-> 0] or [name |-> "",        *)
(* num |-> f].  An oscillator is a generator object: pc is "start" (not    *)
(* yet run), "run" (suspended at a yield, v the value yielded), "error"    *)
(* (left by exception exc raised at source line `line`) or "hang" (in a    *)
(* loop that never yields).                                                *)
(***************************************************************************)
TONE2FREQ ==
    "A0" :> 28 @@ "^A0" :> 29 @@ "B0" :> 31 @@ "C1" :> 33 @@ "^C1" :> 35
    @@ "D1" :> 37 @@ "^D1" :> 39 @@ "E1" :> 41 @@ "F1" :> 44 @@ "^F1" :> 46
    @@ "G1" :> 49 @@ "^G1" :> 52 @@ "A1" :> 55 @@ "^A1" :> 58 @@ "B1" :> 62
    @@ "C2" :> 65 @@ "^C2" :> 69 @@ "D2" :> 73 @@ "^D2" :> 78 @@ "E2" :> 82
    @@ "F2" :> 87 @@ "^F2" :> 93 @@ "G2" :> 98 @@ "^G2" :> 104 @@ "A2" :> 110
    @@ "^A2" :> 117 @@ "B2" :> 123 @@ "C3" :> 131 @@ "^C3" :> 139 @@ "D3" :> 147
    @@ "^D3" :> 156 @@ "E3" :> 165 @@ "F3" :> 175 @@ "^F3" :> 185 @@ "G3" :> 196
    @@ "^G3" :> 208 @@ "A3" :> 220 @@ "^A3" :> 233 @@ "B3" :> 247 @@ "C4" :> 262
    @@ "^C4" :> 277 @@ "D4" :> 294 @@ "^D4" :> 311 @@ "E4" :> 330 @@ "F4" :> 349
    @@ "^F4" :> 370 @@ "G4" :> 392 @@ "^G4" :> 415 @@ "A4" :> 440 @@ "^A4" :> 466
    @@ "B4" :> 494 @@ "C5" :> 523 @@ "^C5" :> 554 @@ "D5" :> 587 @@ "^D5" :> 622
    @@ "E5" :> 659 @@ "F5" :> 698 @@ "^F5" :> 740 @@ "G5" :> 784 @@ "^G5" :> 831
    @@ "A5" :> 880 @@ "^A5" :> 932 @@ "B5" :> 988 @@ "C6" :> 1047 @@ "^C6" :> 1109
    @@ "D6" :> 1175 @@ "^D6" :> 1245 @@ "E6" :> 1319 @@ "F6" :> 1397 @@ "^F6" :> 1480
    @@ "G6" :> 1568 @@ "^G6" :> 1661 @@ "A6" :> 1760 @@ "^A6" :> 1865 @@ "B6" :> 1976
    @@ "C7" :> 2093 @@ "^C7" :> 2217 @@ "D7" :> 2349 @@ "^D7" :> 2489 @@ "E7" :> 2637
    @@ "F7" :> 2794 @@ "^F7" :> 2960 @@ "G7" :> 3136 @@ "^G7" :> 3322 @@ "A7" :> 3520
    @@ "^A7" :> 3729 @@ "B7" :> 3951 @@ "C8" :> 4186

DefaultFrameRate == 44100

Note(s) == [name |-> s, num |-> 0]
Num(f) == [name |-> "", num |-> f]

\* TONE2FREQ.get(freq, freq)
tone2freq(freq) ==
    IF freq.name \in DOMAIN TONE2FREQ THEN Num(TONE2FREQ[freq.name]) ELSE freq

osc_new(kind, freq) ==
    [kind |-> kind, tone |-> freq, pc |-> "start", freq |-> 0, w |-> 0, i |-> 0,
     hi |-> TRUE, v |-> QInt(0), exc |-> "", line |-> 0]

raised(o, exc, line) == [o EXCEPT !.pc = "error", !.exc = exc, !.line = line]

\* sin of a/b turns (b > 0).  sin is not rational: the model takes the
\* piecewise-linear interpolant through the quarter-turn points, where it is
\* exact; sample values of the sine oscillator enter no checked formula.
sin_turns(a, b) ==
    LET u == 4 * (a % b)
    IN  IF u <= b THEN Q(u, b)
        ELSE IF u <= 3 * b THEN Q(2 * b - u, b)
        ELSE Q(u - 4 * b, b)

\* one next() on sine(freq)
sine_yield(o, fr) ==
    [o EXCEPT !.pc = "run", !.v = sin_turns(o.freq * o.i, fr), !.i = @ + 1]

sine(o, fr) ==
    ValueOf({
        IF o.pc # "start" THEN sine_yield(o, fr)
        ELSE IF f.name # "" THEN raised(o, "TypeError", 252)
        ELSE sine_yield([o EXCEPT !.freq = f.num, !.i = 0], fr)
        : f \in {tone2freq(o.tone)}})

\* the body of square's `while 1`, from the position (hi, i) to the next yield
square_yield_low_first(o) ==
    IF o.w <= 0 THEN [o EXCEPT !.pc = "hang"]
    ELSE [o EXCEPT !.pc = "run",
                   !.v = QInt(IF o.hi THEN -1 ELSE 1),
                   !.i = IF o.i + 1 = o.w THEN 0 ELSE o.i + 1,
                   !.hi = IF o.i + 1 = o.w THEN ~o.hi ELSE o.hi]

square_yield(o) ==
    IF o.w <= 0 THEN [o EXCEPT !.pc = "hang"]
    ELSE [o EXCEPT !.pc = "run",
                   !.v = QInt(IF o.hi THEN 1 ELSE -1),
                   !.i = IF o.i + 1 = o.w THEN 0 ELSE o.i + 1,
                   !.hi = IF o.i + 1 = o.w THEN ~o.hi ELSE o.hi]

\* one next() on square(freq); framerate/freq/2 divides integers
square(o, fr) ==
    ValueOf({
        IF o.pc # "start" THEN square_yield(o)
        ELSE IF f.name # "" THEN raised(o, "TypeError", 261)
        ELSE IF f.num = 0 THEN raised(o, "ZeroDivisionError", 261)
        ELSE square_yield([o EXCEPT !.freq = f.num, !.w = (fr \div f.num) \div 2,
                                    !.i = 0, !.hi = TRUE])
        : f \in {tone2freq(o.tone)}})

triangle_yield(o) ==
    [o EXCEPT !.pc = "run", !.v = Q(2 * o.i - o.w, o.w),
              !.i = IF o.i + 1 = o.w THEN 0 ELSE o.i + 1]

\* one next() on triangle(freq)
triangle(o, fr) ==
    ValueOf({
        IF o.pc # "start" THEN triangle_yield(o)
        ELSE IF f.name # "" THEN raised(o, "TypeError", 271)
        ELSE IF f.num = 0 THEN raised(o, "ZeroDivisionError", 271)
        ELSE IF fr \div f.num = 0 THEN raised(o, "ZeroDivisionError", 272)
        ELSE triangle_yield([o EXCEPT !.freq = f.num, !.w = fr \div f.num, !.i = 0])
        : f \in {tone2freq(o.tone)}})

osc_next(o, fr) ==
    IF o.kind = "sine" THEN sine(o, fr)
    ELSE IF o.kind = "square" THEN square(o, fr)
    ELSE triangle(o, fr)

(***************************************************************************)
(* The generator a gen_*_tone run composes (lines 283-286 and their twins):*)
(*   attack(attack, decay, amp(volume, avg(osc(k) for k in tones)))        *)
(* t.pc is the position of the attack generator: "start", "attack" and     *)
(* "decay" (suspended at the yield of that loop), "tail" (suspended at the *)
(* final yield 0.0), "done", "error", "hang".  t.gains records, for every  *)
(* sample yielded from a loop, the phase, the index i, the gain g and the  *)
(* upstream sample x.                                                      *)
(***************************************************************************)
NoTone == [kind |-> "none", tones |-> <<>>, volume |-> QInt(0), attack |-> QInt(0),
           decay |-> QInt(0), fr |-> 0, oscs |-> <<>>, pc |-> "done", i |-> 0,
           na |-> 0, nd |-> 0, out |-> <<>>, gains |-> <<>>, exc |-> "", line |-> 0]

\* avg(*iters) at construction: r = 1.0/len(iters), before anything is pulled
tone_wav(kind, fr, tones, volume, attack, decay) ==
    LET t == [NoTone EXCEPT !.kind = kind, !.tones = tones, !.volume = volume,
                            !.attack = attack, !.decay = decay, !.fr = fr,
                            !.oscs = [k \in 1..Len(tones) |-> osc_new(kind, tones[k])],
                            !.pc = "start"]
    IN  IF tones = <<>>
        THEN [t EXCEPT !.pc = "error", !.exc = "ZeroDivisionError", !.line = 215]
        ELSE t

\* add's for loop over the oscillators (none is ever exhausted): an exception
\* of an oscillator leaves add at once
RECURSIVE add_oscs(_, _, _)
add_oscs(fr, k, acc) ==
    IF k > Len(acc.oscs) THEN acc
    ELSE ValueOf({
            IF o.pc = "run"
            THEN add_oscs(fr, k + 1, [a EXCEPT !.oscs[k] = o, !.x = QAdd(@, o.v)])
            ELSE [a EXCEPT !.oscs[k] = o, !.pc = o.pc, !.exc = o.exc, !.line = o.line]
            : <<a, o>> \in {<<acc, osc_next(acc.oscs[k], fr)>>}})

\* one next() on amp(volume, amp(1.0/len(iters), add(*iters)))
wav_next(t) ==
    ValueOf({[a EXCEPT !.x = QMul(t.volume, QMul(Q(1, Len(t.oscs)), a.x))]
             : a \in {add_oscs(t.fr, 1, [oscs |-> t.oscs, x |-> QInt(0),
                                          pc |-> "run", exc |-> "", line |-> 0])}})

\* int(self.framerate * duration)
frames_of(fr, duration) == Trunc(fr * duration.n, duration.d)

\* i*ra with ra = 1.0/float(na)
attack_gain_from_one(i, na) == Q(i + 1, na)

attack_gain(i, na) == Q(i, na)

\* 1.0 - i*rd with rd = 1.0/float(nd)
decay_gain(i, nd) == QAdd(QInt(1), Q(-i, nd))

\* yield g * it.next()
shaped(t, ph, g) ==
    ValueOf({
        IF u.pc # "run"
        THEN [t EXCEPT !.oscs = u.oscs, !.pc = u.pc, !.exc = u.exc, !.line = u.line]
        ELSE [t EXCEPT !.oscs = u.oscs, !.pc = ph,
                       !.out = Append(@, QMul(g, u.x)),
                       !.gains = Append(@, [ph |-> ph, i |-> t.i, g |-> g, x |-> u.x])]
        : u \in {wav_next(t)}})

\* the second loop, from its head; after it the final yield 0.0
decay_loop_no_tail(t) ==
    IF t.i < t.nd THEN shaped(t, "decay", decay_gain(t.i, t.nd))
    ELSE [t EXCEPT !.pc = "done"]

decay_loop(t) ==
    IF t.i < t.nd THEN shaped(t, "decay", decay_gain(t.i, t.nd))
    ELSE [t EXCEPT !.pc = "tail", !.out = Append(@, QInt(0))]

\* nd and rd, between the loops
enter_decay(t) ==
    ValueOf({
        IF u.nd = 0
        THEN [u EXCEPT !.pc = "error", !.exc = "ZeroDivisionError", !.line = 241]
        ELSE decay_loop(u)
        : u \in {[t EXCEPT !.nd = frames_of(t.fr, t.decay), !.i = 0]}})

\* the first loop, from its head
attack_loop(t) ==
    IF t.i < t.na THEN shaped(t, "attack", attack_gain(t.i, t.na))
    ELSE enter_decay(t)

\* one next() on attack(attack, decay, it)
\* na and ra, before the first loop
enter_attack(t) ==
    ValueOf({
        IF u.na = 0
        THEN [u EXCEPT !.pc = "error", !.exc = "ZeroDivisionError", !.line = 234]
        ELSE attack_loop(u)
        : u \in {[t EXCEPT !.na = frames_of(t.fr, t.attack), !.i = 0]}})

\* the loop index advanced, on resuming after a yield
stepped(t) == [t EXCEPT !.i = @ + 1]

attack(t) ==
    ValueOf({
        IF u.pc = "start" THEN enter_attack(u)
        ELSE IF u.pc = "attack" THEN ValueOf({attack_loop(v) : v \in {stepped(u)}})
        ELSE IF u.pc = "decay" THEN ValueOf({decay_loop(v) : v \in {stepped(u)}})
        ELSE IF u.pc = "tail" THEN [u EXCEPT !.pc = "done"]
        ELSE u
        : u \in {t}})

(***************************************************************************)
(* gen_sine_tone, gen_square_tone, gen_triangle_tone and main.  The result *)
(* of a call is the sink it leaves (the file opened for path), how often   *)
(* the stream and the file were closed, and how the call ended: "return",  *)
(* "raise" (exception exc from source line `line`), or "hang".             *)
(***************************************************************************)
\* the list comprehension of write: pulls the generator to its end
RECURSIVE drain(_)
drain(t) ==
    ValueOf({IF u.pc \in {"done", "error", "hang"} THEN u ELSE drain(attack(u))
             : u \in {t}})

\* the body shared by the three gen_*_tone functions (lines 281-289 of
\* gen_sine_tone); open() is taken to succeed
\* how a gen_*_tone call that does not reach stream.close() leaves things
left_open(f, nfw, how, exc, line) ==
    [fp |-> f, nframeswritten |-> nfw, opens |-> 1, stream_closes |-> 0,
     fp_closes |-> 0, how |-> how, exc |-> exc, line |-> line]

\* stream.write(wav); stream.close(); fp.close()
write_and_close(f1, d) ==
    ValueOf({
        IF d.pc = "hang" THEN left_open(f1, 0, "hang", "", 0)
        ELSE IF d.pc = "error"
             THEN left_open(w.fp, w.nframeswritten, "raise", d.exc, d.line)
        ELSE IF w.exc # "" THEN left_open(w.fp, w.nframeswritten, "raise", w.exc, 76)
        ELSE [fp |-> close(w.fp, 1, 2, DefaultFrameRate, <<>>, w.nframeswritten),
              nframeswritten |-> w.nframeswritten, opens |-> 1,
              stream_closes |-> 1, fp_closes |-> 1, how |-> "return",
              exc |-> "", line |-> 0]
        : w \in {write(f1, 0, 1, 2, [vals |-> d.out, exc |-> d.exc])}})

gen_tone(kind, tones, volume, att, dec) ==
    ValueOf({
        IF wav.pc = "error" THEN left_open(f1, 0, "raise", wav.exc, wav.line)
        ELSE ValueOf({write_and_close(f1, d) : d \in {drain(wav)}})
        : <<f1, wav>> \in {<<WaveWriter_init(EmptyFile, 1, 2, DefaultFrameRate, <<>>),
                             tone_wav(kind, DefaultFrameRate, tones, volume, att, dec)>>}})

Options == {"-N", "-Q", "-T"}

\* the function the options select: the last one wins
RECURSIVE func_of(_, _)
func_of(opts, func) ==
    IF opts = <<>> THEN func
    ELSE func_of(Tail(opts), IF Head(opts) = "-N" THEN "sine"
                             ELSE IF Head(opts) = "-Q" THEN "square"
                             ELSE IF Head(opts) = "-T" THEN "triangle"
                             ELSE func)

\* main(argv): argv[1:] is the option words opts followed by the words args;
\* volume, att and dec are the keyword defaults of the gen_*_tone functions.
\* The result carries the exit status of the process: the value returned,
\* or 1 when an exception leaves main.
\* how main ends without having called a gen_*_tone function
not_called(status, how, exc, line) ==
    [fp |-> EmptyFile, nframeswritten |-> 0, opens |-> 0, stream_closes |-> 0,
     fp_closes |-> 0, how |-> how, exc |-> exc, line |-> line, status |-> status]

\* the exit status after func(path, args): 0 is returned, an exception that
\* leaves main ends the process with status 1, a hang gives no status (-1)
exit_status(g) ==
    [fp |-> g.fp, nframeswritten |-> g.nframeswritten, opens |-> g.opens,
     stream_closes |-> g.stream_closes, fp_closes |-> g.fp_closes, how |-> g.how,
     exc |-> g.exc, line |-> g.line,
     status |-> IF g.how = "hang" THEN -1 ELSE IF g.how = "raise" THEN 1 ELSE 0]

main(opts, args, volume, att, dec) ==
    IF \E k \in 1..Len(opts) : opts[k] \notin Options
    THEN not_called(100, "return", "", 0)
    ELSE IF args = <<>> THEN not_called(1, "raise", "IndexError", 335)
    ELSE ValueOf({exit_status(g)
                  : g \in {gen_tone(func_of(opts, "sine"),
                                     [k \in 1..(Len(args) - 1) |-> Note(args[k + 1])],
                                     volume, att, dec)}})

(***************************************************************************)
(* The values of the variables a specification does not use.               *)
(***************************************************************************)
\* the writer's history before any call
NoCall == [op |-> "init", pulled |-> 0, exc |-> ""]

NoOsc == [gen |-> osc_new("none", Num(0)), fr |-> 0, out |-> <<>>, pulls |-> 0]

NoRun == [entry |-> "none", opts |-> <<>>, args |-> <<>>, tones |-> <<>>,
          volume |-> QInt(0), attack |-> QInt(0), decay |-> QInt(0),
          pc |-> "exit", opens |-> 0, stream_closes |-> 0, fp_closes |-> 0,
          how |-> "", exc |-> "", line |-> 0, status |-> 0]

IdleWriter ==
    /\ fp = EmptyFile /\ nchannels = 1 /\ sampwidth = 2 /\ framerate = DefaultFrameRate
    /\ nframes = <<>> /\ nframeswritten = 0 /\ wstate = "closed"
    /\ hist = [calls |-> 0, samples |-> 0, last |-> NoCall]

(***************************************************************************)
(* add and mult pulled to their end over finite inputs.                    *)
(***************************************************************************)
InputVals == {2, 3}

CInit ==
    /\ \E op \in {"add", "mult"}, k \in 0..MaxIters :
         \E inputs \in [1..k -> SeqsUpTo(InputVals, MaxLen)] :
            comb = [op |-> op, inputs |-> inputs, iters |-> inputs, r |-> <<>>,
                    out |-> <<>>, pc |-> "start", exc |-> ""]
    /\ IdleWriter /\ osc = NoOsc /\ tone = NoTone /\ run = NoRun

AddNext ==
    /\ comb.op = "add" /\ comb.pc \in {"start", "yield"}
    /\ comb' = add(comb)
    /\ UNCHANGED <<wvars, osc, tone, run>>

MultNext ==
    /\ comb.op = "mult" /\ comb.pc \in {"start", "yield"}
    /\ comb' = mult(comb)
    /\ UNCHANGED <<wvars, osc, tone, run>>

CNext == AddNext \/ MultNext

SpecComb == CInit /\ [][CNext]_vars

(***************************************************************************)
(* Claims about add and mult.                                              *)
(***************************************************************************)
MinLen(inputs) ==
    CHOOSE m \in 0..MaxLen :
        /\ \E i \in 1..Len(inputs) : Len(inputs[i]) = m
        /\ \A i \in 1..Len(inputs) : Len(inputs[i]) >= m

RECURSIVE Combine(_, _, _, _)
Combine(op, inputs, i, k) ==
    IF k > Len(inputs) THEN (IF op = "add" THEN 0 ELSE 1)
    ELSE IF op = "add" THEN inputs[k][i] + Combine(op, inputs, i, k + 1)
    ELSE inputs[k][i] * Combine(op, inputs, i, k + 1)

\* C1 (as claimed): over two or more finite inputs, add / mult yields exactly
\* min(len(inputs)) values, the i-th being the sum / product of the i-th
\* value of every input, yields nothing computed from the still-live inputs
\* only, and ends without an error.
C1_StopsAtShortestInput ==
    Len(comb.inputs) >= 2 =>
        /\ comb.pc # "error"
        /\ Len(comb.out) <= MinLen(comb.inputs)
        /\ \A i \in 1..Len(comb.out) :
              i <= MinLen(comb.inputs)
                 => comb.out[i] = Combine(comb.op, comb.inputs, i, 1)
        /\ comb.pc = "done" => Len(comb.out) = MinLen(comb.inputs)

(***************************************************************************)
(* The square oscillator pulled on its own, WaveGenerator(framerate) with  *)
(* small frame rates.                                                      *)
(***************************************************************************)
OInit ==
    /\ \E fr \in 1..MaxRate, f \in 1..MaxFreq :
          osc = [gen |-> osc_new("square", Num(f)), fr |-> fr, out |-> <<>>,
                 pulls |-> 0]
    /\ IdleWriter /\ comb = NoComb /\ tone = NoTone /\ run = NoRun

SquareNext ==
    /\ osc.pulls < MaxPulls
    /\ osc.gen.pc \in {"start", "run"}
    /\ LET o == square(osc.gen, osc.fr)
       IN  osc' = [osc EXCEPT !.gen = o, !.pulls = @ + 1,
                              !.out = IF o.pc = "run" THEN Append(@, o.v) ELSE @]
    /\ UNCHANGED <<wvars, comb, tone, run>>

ONext == SquareNext

SpecOsc == OInit /\ [][ONext]_vars

\* floor(r/f/2) over the reals: the largest w with 2*f*w <= r
HalfPeriod(r, f) == CHOOSE w \in 0..r : 2 * f * w <= r /\ r < 2 * f * (w + 1)

\* C9: with w = floor(r/f/2) >= 1 every pull of the square oscillator
\* returns a value, and the i-th value (from 0) is +1 when (i mod 2w) < w
\* and -1 otherwise.
C9_SquarePeriod ==
    LET w == HalfPeriod(osc.fr, osc.gen.tone.num)
    IN  (osc.gen.kind = "square" /\ w >= 1) =>
            /\ osc.gen.pc \in {"start", "run"}
            /\ Len(osc.out) = osc.pulls
            /\ \A k \in 1..Len(osc.out) :
                  osc.out[k] = QInt(IF ((k - 1) % (2 * w)) < w THEN 1 ELSE -1)

C9_Witness ==
    /\ osc.gen.kind = "square"
    /\ HalfPeriod(osc.fr, osc.gen.tone.num) >= 2
    /\ Len(osc.out) > 4 * HalfPeriod(osc.fr, osc.gen.tone.num)

(***************************************************************************)
(* The composed tone generator pulled to its end.                          *)
(***************************************************************************)
Kinds == {"sine", "square", "triangle"}

\* note names of the table, a string that is no note name, and numbers
ToneSpecs == {Note("C8"), Note("440"), Num(11025), Num(DefaultFrameRate)}

\* durations in seconds, in half frames at the default frame rate
Durations == {Q(k, 2 * DefaultFrameRate) : k \in (-2)..(2 * MaxEnv)}

Volumes == {Q(1, 2), QInt(2)}

TInit ==
    /\ \E kind \in Kinds, tones \in SeqsUpTo(ToneSpecs, MaxTones),
          att \in Durations, dec \in Durations :
          tone = tone_wav(kind, DefaultFrameRate, tones, Q(1, 2), att, dec)
    /\ IdleWriter /\ comb = NoComb /\ osc = NoOsc /\ run = NoRun

AttackNext ==
    /\ tone.pc \in {"start", "attack", "decay", "tail"}
    /\ tone' = attack(tone)
    /\ UNCHANGED <<wvars, comb, osc, run>>

TNext == AttackNext

SpecTone == TInit /\ [][TNext]_vars

(***************************************************************************)
(* Claims about the composed tone and its envelope.                        *)
(***************************************************************************)
AttackFrames == frames_of(tone.fr, tone.attack)
DecayFrames == frames_of(tone.fr, tone.decay)

\* the tone resolves to a frequency whose oscillator yields samples
Sounding(kind, freq, fr) ==
    LET f == tone2freq(freq)
    IN  /\ f.name = "" /\ f.num > 0
        /\ kind = "square" => 2 * f.num <= fr
        /\ kind = "triangle" => f.num <= fr

AllSounding ==
    /\ tone.tones # <<>>
    /\ \A k \in 1..Len(tone.tones) : Sounding(tone.kind, tone.tones[k], tone.fr)

\* the gain of a linear ramp from a0 to a1 over n frames, j steps after a0
Ramp(a0, a1, n, j) == QAdd(QInt(a0), Q(j * (a1 - a0), n))

\* C2 (as claimed): for a non-empty tone list and positive attack and decay
\* the composed sequence has exactly attack_frames + decay_frames samples
\* and none beyond the decay phase.
C2_LengthIsAttackPlusDecay ==
    (tone.tones # <<>> /\ tone.attack.n > 0 /\ tone.decay.n > 0) =>
        /\ Len(tone.out) <= AttackFrames + DecayFrames
        /\ tone.pc = "done" => Len(tone.out) = AttackFrames + DecayFrames

\* C2 (amended): for a non-empty list of tones whose oscillators all yield
\* and attack and decay of at least one frame each, the composed sequence
\* ends without error after exactly attack_frames + decay_frames + 1
\* samples: one per frame of the two phases, then one final sample 0.0.
C2_LengthIsAttackPlusDecayPlusOne ==
    (AllSounding /\ AttackFrames >= 1 /\ DecayFrames >= 1) =>
        /\ tone.pc \in {"start", "attack", "decay", "tail", "done"}
        /\ tone.pc \in {"start", "attack", "decay"}
              => /\ Len(tone.out) = Len(tone.gains)
                 /\ Len(tone.out) <= AttackFrames + DecayFrames
        /\ tone.pc \in {"tail", "done"}
              => /\ Len(tone.out) = AttackFrames + DecayFrames + 1
                 /\ Len(tone.gains) = AttackFrames + DecayFrames
                 /\ tone.out[Len(tone.out)] = QInt(0)

C2_Witness ==
    /\ AllSounding /\ Len(tone.tones) = 2
    /\ AttackFrames >= 2 /\ DecayFrames >= 1
    /\ tone.pc = "done"
    /\ Len(tone.out) = AttackFrames + DecayFrames + 1

\* C7 (as claimed): an envelope phase of n <= 0 frames yields no gain and
\* raises no error, the attack phase and the decay phase alike.
C7_EmptyPhaseYieldsNothingNoError ==
    /\ (tone.kind # "none" /\ AttackFrames <= 0) =>
          /\ ~(tone.exc = "ZeroDivisionError" /\ tone.line = 234)
          /\ \A j \in 1..Len(tone.gains) : tone.gains[j].ph # "attack"
    /\ (tone.kind # "none" /\ DecayFrames <= 0) =>
          /\ ~(tone.exc = "ZeroDivisionError" /\ tone.line = 241)
          /\ \A j \in 1..Len(tone.gains) : tone.gains[j].ph # "decay"

\* the ramp of a phase: (a0, a1, n)
PhaseA0(ph) == IF ph = "attack" THEN 0 ELSE 1
PhaseA1(ph) == IF ph = "attack" THEN 1 ELSE 0
PhaseN(ph) == IF ph = "attack" THEN AttackFrames ELSE DecayFrames

\* C8 (as claimed): the i-th gain of a phase (from 0) is
\* a0 + (i+1)*(a1-a0)/n: never a0 itself, and a1 at the last frame.
C8_GainIsOneStepAhead ==
    \A j \in 1..Len(tone.gains) :
        LET e == tone.gains[j]
        IN  /\ e.g = Ramp(PhaseA0(e.ph), PhaseA1(e.ph), PhaseN(e.ph), e.i + 1)
            /\ e.g # QInt(PhaseA0(e.ph))
            /\ e.i = PhaseN(e.ph) - 1 => e.g = QInt(PhaseA1(e.ph))

\* C8 (amended): the i-th gain of a phase (from 0) is a0 + i*(a1-a0)/n and
\* the sample yielded is that gain times the upstream sample: the first gain
\* of a phase is a0 itself (0 in the attack phase, full gain in the decay
\* phase) and the last one is one step short of a1; the j-th sample of the
\* sequence is frame j-1 of the attack phase or frame j-1-n_attack of the
\* decay phase.
C8_GainStartsAtA0 ==
    \A j \in 1..Len(tone.gains) :
        LET e == tone.gains[j]
            n == PhaseN(e.ph)
            a0 == PhaseA0(e.ph)
            a1 == PhaseA1(e.ph)
            na == IF AttackFrames > 0 THEN AttackFrames ELSE 0
        IN  /\ e.ph = IF j <= na THEN "attack" ELSE "decay"
            /\ e.i = IF j <= na THEN j - 1 ELSE j - 1 - na
            /\ e.i < n
            /\ e.g = Ramp(a0, a1, n, e.i)
            /\ tone.out[j] = QMul(e.g, e.x)
            /\ e.i = 0 => e.g = QInt(a0)
            /\ e.i = n - 1 => /\ e.g = Ramp(a0, a1, n, n - 1)
                              /\ e.g # QInt(a1)

C8_Witness ==
    /\ AttackFrames >= 2 /\ DecayFrames >= 2
    /\ tone.pc = "tail"
    /\ Len(tone.gains) = AttackFrames + DecayFrames
    /\ tone.gains[1].x # QInt(0) /\ tone.out[1] = QInt(0)
    /\ tone.gains[AttackFrames + 1].g = QInt(1)

(***************************************************************************)
(* One call of main or of a gen_*_tone function.  run.pc is "call" before  *)
(* the call and "exit" after it, or "hang" when the call never ends.  The  *)
(* defaults attack=0.01 and decay=0.7 give 441 and 30869 frames; the call  *)
(* is checked with the short durations of Durations in their place.        *)
(***************************************************************************)
OptionWords == Options \cup {"-S"}

ArgLists == {<<>>} \cup {<<"out.wav">> \o ts : ts \in SeqsUpTo({"C8", "440"}, MaxTones)}

RInit ==
    /\ \E entry \in {"main"} \cup Kinds, att \in Durations, dec \in Durations,
          volume \in Volumes :
          \/ /\ entry = "main" /\ volume = Q(1, 2)
             /\ \E opts \in SeqsUpTo(OptionWords, MaxOpts), args \in ArgLists :
                   run = [NoRun EXCEPT !.entry = entry, !.opts = opts, !.args = args,
                                       !.volume = volume, !.attack = att,
                                       !.decay = dec, !.pc = "call"]
          \/ /\ entry # "main"
             /\ \E tones \in SeqsUpTo(ToneSpecs, MaxTones) :
                   run = [NoRun EXCEPT !.entry = entry, !.tones = tones,
                                       !.volume = volume, !.attack = att,
                                       !.decay = dec, !.pc = "call"]
    /\ fp = EmptyFile /\ nchannels = 1 /\ sampwidth = 2
    /\ framerate = DefaultFrameRate /\ nframes = <<>> /\ nframeswritten = 0
    /\ wstate = "closed" /\ hist = [calls |-> 0, samples |-> 0, last |-> NoCall]
    /\ comb = NoComb /\ osc = NoOsc /\ tone = NoTone

Returned(r, status) ==
    /\ fp' = r.fp
    /\ nframeswritten' = r.nframeswritten
    /\ wstate' = IF r.opens = 1 /\ r.stream_closes = 0 THEN "open" ELSE "closed"
    /\ run' = [run EXCEPT !.pc = IF r.how = "hang" THEN "hang" ELSE "exit",
                          !.opens = r.opens, !.stream_closes = r.stream_closes,
                          !.fp_closes = r.fp_closes, !.how = r.how, !.exc = r.exc,
                          !.line = r.line, !.status = status]
    /\ UNCHANGED <<nchannels, sampwidth, framerate, nframes, hist, comb, osc, tone>>

Main ==
    /\ run.pc = "call" /\ run.entry = "main"
    /\ LET r == main(run.opts, run.args, run.volume, run.attack, run.decay)
       IN  Returned(r, r.status)

GenSineTone ==
    /\ run.pc = "call" /\ run.entry = "sine"
    /\ Returned(gen_tone("sine", run.tones, run.volume, run.attack, run.decay),
                run.status)

GenSquareTone ==
    /\ run.pc = "call" /\ run.entry = "square"
    /\ Returned(gen_tone("square", run.tones, run.volume, run.attack, run.decay),
                run.status)

GenTriangleTone ==
    /\ run.pc = "call" /\ run.entry = "triangle"
    /\ Returned(gen_tone("triangle", run.tones, run.volume, run.attack, run.decay),
                run.status)

RNext == Main \/ GenSineTone \/ GenSquareTone \/ GenTriangleTone

SpecRun == RInit /\ [][RNext]_vars

(***************************************************************************)
(* Claims about the runs.                                                  *)
(***************************************************************************)
Placeholder == WaveWriter_init(EmptyFile, 1, 2, DefaultFrameRate, <<>>).data

\* C5 (as claimed): on every exit path of a gen_*_tone run that opened the
\* sink, the stream and the sink are closed exactly once and the header on
\* the sink is not the placeholder.
C5_ClosedAndFinalizedOnEveryExit ==
    (run.pc = "exit" /\ run.opens = 1) =>
        /\ run.stream_closes = 1
        /\ run.fp_closes = 1
        /\ SubSeq(fp.data, 1, Len(Placeholder)) # Placeholder

\* C6 (as claimed): main called with no output path, with an output path and
\* no tone, or with an unknown option returns 100, never opens the output
\* file and writes no byte.
C6_UsageErrorExits100 ==
    (/\ run.entry = "main" /\ run.pc = "exit"
     /\ \/ run.args = <<>>
        \/ Len(run.args) = 1
        \/ \E k \in 1..Len(run.opts) : run.opts[k] \notin Options) =>
        /\ run.status = 100
        /\ run.opens = 0
        /\ fp.data = <<>>

(***************************************************************************)
(* The writer driven by a user: construction, write calls, close.          *)
(***************************************************************************)
SampleVals == {Q(-1, 1), Q(-1, 2), Q(1, 3), Q(1, 1)}

FrameInputs == [vals : SeqsUpTo(SampleVals, MaxFrames), exc : {"", "ValueError"}]

WInit ==
    /\ nchannels \in {1, 2}
    /\ sampwidth \in {1, 2}
    /\ framerate \in {8000, 44100}
    /\ nframes \in {<<>>} \cup {<<n>> : n \in 0..MaxDeclared}
    /\ nframeswritten = 0
    /\ fp = WaveWriter_init(EmptyFile, nchannels, sampwidth, framerate, nframes)
    /\ wstate = "open"
    /\ hist = [calls |-> 0, samples |-> 0, last |-> NoCall]
    /\ comb = NoComb /\ osc = NoOsc /\ tone = NoTone /\ run = NoRun

Write(frames) ==
    /\ wstate = "open"
    /\ hist.calls < MaxCalls
    /\ LET r == write(fp, nframeswritten, nchannels, sampwidth, frames)
       IN  /\ fp' = r.fp
           /\ nframeswritten' = r.nframeswritten
           /\ hist' = [calls |-> hist.calls + 1,
                       samples |-> hist.samples
                                   + (IF r.exc = "" THEN Len(frames.vals) ELSE 0),
                       last |-> [op |-> "write", pulled |-> Len(frames.vals),
                                 exc |-> r.exc]]
    /\ UNCHANGED <<nchannels, sampwidth, framerate, nframes, wstate, comb, osc, tone, run>>

Close ==
    /\ wstate = "open"
    /\ fp' = close(fp, nchannels, sampwidth, framerate, nframes, nframeswritten)
    /\ wstate' = "closed"
    /\ hist' = [hist EXCEPT !.last = [op |-> "close", pulled |-> 0, exc |-> ""]]
    /\ UNCHANGED <<nchannels, sampwidth, framerate, nframes, nframeswritten, comb, osc, tone, run>>

WNext == (\E frames \in FrameInputs : Write(frames)) \/ Close

SpecWriter == WInit /\ [][WNext]_vars

(***************************************************************************)
(* Claims about the writer.                                                *)
(***************************************************************************)
HeaderLen == Len(WaveWriter_init(EmptyFile, 1, 2, 44100, <<>>).data)

\* the frame count a header encodes: data length over block alignment
HeaderFrames(data) ==
    LET blockalign == unpack_le(SubSeq(data, 33, 34))
        datalen == unpack_le(SubSeq(data, 41, 44))
    IN  IF blockalign = 0 THEN 0 ELSE datalen \div blockalign

\* the file a writer opened with declared frame count n leaves at open
DeclaredHeader(n) ==
    WaveWriter_init(EmptyFile, nchannels, sampwidth, framerate, <<n>>).data

\* C3 (as claimed): after close, the frame count in the header equals the
\* number of samples written to the payload, in both modes.
C3_HeaderCountIsSamplesWritten ==
    wstate = "closed" => HeaderFrames(fp.data) = hist.samples

\* C4: with unknown frame count, close leaves at offset 0 exactly the header
\* that opening with the declared count N (the samples written) writes; the
\* placeholder has the final header's length, and close leaves every payload
\* byte where it was.
C4_PatchedHeaderIsDeclaredHeader ==
    [][(wstate = "open" /\ wstate' = "closed" /\ nframes = <<>>) =>
        /\ SubSeq(fp'.data, 1, HeaderLen) = DeclaredHeader(hist.samples)
        /\ Len(DeclaredHeader(hist.samples)) = HeaderLen
        /\ Len(fp'.data) = Len(fp.data)
        /\ \A i \in (HeaderLen + 1)..Len(fp.data) : fp'.data[i] = fp.data[i]
        /\ Len(fp.data) = HeaderLen + hist.samples * sampwidth]_vars

C4_Witness ==
    /\ wstate = "closed" /\ nframes = <<>>
    /\ hist.calls >= 2 /\ hist.samples >= 2
    /\ Len(fp.data) > HeaderLen

\* C10: a write call whose input raises (or that fails otherwise) changes
\* neither the sink content, the sink position nor the frames-written
\* counter; a write call that succeeds on k samples appends exactly
\* k*sampwidth bytes and adds exactly k to the counter.
C10_WriteAllOrNothing ==
    [][\A frames \in FrameInputs : Write(frames) =>
        IF hist'.last.exc # ""
        THEN fp' = fp /\ nframeswritten' = nframeswritten
        ELSE /\ Len(fp'.data) = Len(fp.data) + Len(frames.vals) * sampwidth
             /\ SubSeq(fp'.data, 1, Len(fp.data)) = fp.data
             /\ fp'.pos = Len(fp'.data)
             /\ tell(nframeswritten') = tell(nframeswritten) + Len(frames.vals)]_vars

C10_Witness ==
    /\ hist.last.op = "write" /\ hist.last.exc = "ValueError"
    /\ hist.last.pulled >= 1
    /\ hist.samples >= 1

====
